---- MODULE Spec2Model ----
(***************************************************************************)
(* Lifecycle of streamline.Application (src/streamline/Application.py):    *)
(* a Gtk.Application subclass with three handlers, do_startup, do_activate *)
(* and on_quit.  None of the handlers tests any state before acting, so    *)
(* every handler is enabled in every state; the model lets a caller invoke *)
(* them in any order.  `calls` is a history variable recording the         *)
(* handlers invoked so far; everything else is state the handlers touch.   *)
(***************************************************************************)
EXTENDS Naturals, Sequences, FiniteSets

\* Largest number of handler invocations explored.
MaxCalls == 5

\* Python's None, as the value of a reference; objects are numbered from 1.
None == 0

\* logging.DEBUG and the root logger's default level logging.WARNING.
DEBUG == 10
WARNING == 30

\* The one Application instance (application_id of __init__).
Self == "org.theorangealliance.streamline"

VARIABLES
    main_window,      \* self.main_window: None or the identity of a MainWindow
    windows,          \* the MainWindow objects created so far, by identity
    logger_level,     \* level of the root logger
    logger_handlers,  \* handlers attached to the root logger, in order
    quit_requested,   \* whether Gtk.Application.quit() has been called on self
    error,            \* whether a handler raised (call of a method on None)
    calls             \* history: the handlers invoked so far

vars == <<main_window, windows, logger_level, logger_handlers,
          quit_requested, error, calls>>

\* MainWindow(application=app): a new, not yet shown, window bound to app.
MainWindow(app) ==
    [application |-> app, shown |-> FALSE, children_shown |-> FALSE]

\* w.show_all(): the window and every widget it contains become visible.
show_all(w) ==
    [w EXCEPT !.shown = TRUE, !.children_shown = TRUE]

\* logging.StreamHandler(stream) followed by setLevel(level).
StreamHandler(stream, level) ==
    [stream |-> stream, level |-> level]

\* Number of invocations of handler h so far.
Count(h) == Cardinality({i \in 1..Len(calls) : calls[i] = h})

\* The last handler invoked in the step is h.
Called(h) == calls' = Append(calls, h)

\* Application.__init__: no window; the root logger is as the logging
\* module creates it (level WARNING, no handler).
Init ==
    /\ main_window = None
    /\ windows = <<>>
    /\ logger_level = WARNING
    /\ logger_handlers = <<>>
    /\ quit_requested = FALSE
    /\ error = FALSE
    /\ calls = <<>>

\* do_startup with the window built during startup.
do_startup_creates_window ==
    /\ Len(calls) < MaxCalls
    /\ logger_level' = DEBUG
    /\ logger_handlers' = Append(logger_handlers, StreamHandler("stdout", DEBUG))
    /\ main_window' = Len(windows) + 1
    /\ windows' = Append(windows, MainWindow(Self))
    /\ calls' = Append(calls, "do_startup")
    /\ UNCHANGED <<quit_requested, error>>

\* do_startup without ch.setLevel: the handler keeps level NOTSET (0) and
\* the logger's level is set on the handler's behalf only.
do_startup_handler_unset ==
    /\ Len(calls) < MaxCalls
    /\ logger_level' = DEBUG
    /\ logger_handlers' = Append(logger_handlers, StreamHandler("stdout", 0))
    /\ calls' = Append(calls, "do_startup")
    /\ UNCHANGED <<main_window, windows, quit_requested, error>>

\* Application.do_startup: configure the root logger.
do_startup ==
    /\ Len(calls) < MaxCalls
    /\ logger_level' = DEBUG
    /\ logger_handlers' = Append(logger_handlers, StreamHandler("stdout", DEBUG))
    /\ calls' = Append(calls, "do_startup")
    /\ UNCHANGED <<main_window, windows, quit_requested, error>>

\* do_activate without the show_all() call.
do_activate_not_shown ==
    /\ Len(calls) < MaxCalls
    /\ main_window' = Len(windows) + 1
    /\ windows' = Append(windows, MainWindow(Self))
    /\ calls' = Append(calls, "do_activate")
    /\ UNCHANGED <<logger_level, logger_handlers, quit_requested, error>>

\* do_activate that creates the window only when there is none yet and
\* otherwise shows the existing one again.
do_activate_create_once ==
    /\ Len(calls) < MaxCalls
    /\ LET w == IF main_window = None THEN Len(windows) + 1 ELSE main_window
           heap == IF main_window = None
                   THEN Append(windows, MainWindow(Self))
                   ELSE windows
       IN  /\ main_window' = w
           /\ windows' = [heap EXCEPT ![w] = show_all(heap[w])]
    /\ calls' = Append(calls, "do_activate")
    /\ UNCHANGED <<logger_level, logger_handlers, quit_requested, error>>

\* do_activate that hides the window it replaces.
do_activate_hides_previous ==
    /\ Len(calls) < MaxCalls
    /\ LET w == Len(windows) + 1
           old == [i \in 1..Len(windows) |->
                     IF i = main_window
                     THEN [windows[i] EXCEPT !.shown = FALSE]
                     ELSE windows[i]]
       IN  /\ main_window' = w
           /\ windows' = Append(old, show_all(MainWindow(Self)))
    /\ calls' = Append(calls, "do_activate")
    /\ UNCHANGED <<logger_level, logger_handlers, quit_requested, error>>

\* Application.do_activate: create a MainWindow, store it, show it.
do_activate ==
    /\ Len(calls) < MaxCalls
    /\ LET w == Len(windows) + 1
           heap == Append(windows, MainWindow(Self))
       IN  /\ main_window' = w
           /\ windows' = [heap EXCEPT ![w] = show_all(heap[w])]
           /\ error' = (error \/ main_window' = None)
    /\ calls' = Append(calls, "do_activate")
    /\ UNCHANGED <<logger_level, logger_handlers, quit_requested>>

\* on_quit that closes the main window before quitting: a method call on
\* self.main_window, which raises when the reference is None.
on_quit_closes_window ==
    /\ Len(calls) < MaxCalls
    /\ error' = (error \/ main_window = None)
    /\ quit_requested' = (main_window # None)
    /\ calls' = Append(calls, "on_quit")
    /\ UNCHANGED <<main_window, windows, logger_level, logger_handlers>>

\* on_quit that drops the window reference.
on_quit_clears_window ==
    /\ Len(calls) < MaxCalls
    /\ main_window' = None
    /\ quit_requested' = TRUE
    /\ calls' = Append(calls, "on_quit")
    /\ UNCHANGED <<windows, logger_level, logger_handlers, error>>

\* Application.on_quit: self.quit().
on_quit ==
    /\ Len(calls) < MaxCalls
    /\ quit_requested' = TRUE
    /\ calls' = Append(calls, "on_quit")
    /\ UNCHANGED <<main_window, windows, logger_level, logger_handlers, error>>

Next ==
    \/ do_startup
    \/ do_activate
    \/ on_quit

Spec == Init /\ [][Next]_vars

----------------------------------------------------------------------------
\* Properties of the lifecycle.

\* do_startup was invoked before the (first) do_activate.
StartupBeforeActivate ==
    \E i, j \in 1..Len(calls) :
        i < j /\ calls[i] = "do_startup" /\ calls[j] = "do_activate"

\* Every window created so far is shown together with its children.
AllShown ==
    \A i \in 1..Len(windows) : windows[i].shown /\ windows[i].children_shown

\* C1: at most one MainWindow is ever created by the Application, whatever
\* the sequence of lifecycle calls.
C1_AtMostOneWindow == Len(windows) <= 1

\* C2: after exactly one do_activate, following do_startup, main_window is
\* not None and refers to a MainWindow constructed with this Application
\* that is shown together with all its children.
C2_ActivatedOnce ==
    (Count("do_activate") = 1 /\ StartupBeforeActivate) =>
        /\ main_window # None
        /\ main_window \in 1..Len(windows)
        /\ windows[main_window].application = Self
        /\ windows[main_window].shown
        /\ windows[main_window].children_shown

C2_Witness ==
    /\ calls = <<"do_startup", "do_activate">>
    /\ main_window = 1
    /\ windows[1].shown

\* C3: as long as do_activate has not run, main_window is None; this
\* includes the state right after construction, where do_startup has not
\* run, and the state right after do_startup.
C3_NoWindowBeforeActivate ==
    Count("do_activate") = 0 => (main_window = None /\ windows = <<>>)

C3_Witness ==
    /\ Len(calls) >= 1
    /\ calls[Len(calls)] = "do_startup"
    /\ Count("do_activate") = 0
    /\ main_window = None

\* C4: a do_activate call made when a window is already referenced replaces
\* the reference: afterwards main_window is the window created by this call
\* and no longer the window it referred to before.
C4_SecondActivateReplaces ==
    [][(Called("do_activate") /\ main_window # None) =>
          /\ main_window' # main_window
          /\ main_window' = Len(windows')
          /\ Len(windows') = Len(windows) + 1]_vars

C4_Witness ==
    /\ Count("do_activate") = 2
    /\ calls[Len(calls)] = "do_activate"
    /\ main_window = 2

\* C5: on_quit requests termination of the event loop and raises nothing,
\* in every state: with or without a window, and when called repeatedly.
C5_QuitNeverFails ==
    [][Called("on_quit") => (quit_requested' /\ ~error')]_vars

C5_Witness ==
    /\ Len(calls) >= 3
    /\ calls[1] = "on_quit"
    /\ calls[2] = "do_activate"
    /\ calls[3] = "on_quit"
    /\ quit_requested
    /\ ~error

\* C6: once on_quit has been called, no later step creates a new window or
\* changes the window reference.
C6_NoWindowAfterQuit ==
    [][quit_requested =>
          (Len(windows') = Len(windows) /\ main_window' = main_window)]_vars

\* C7: once do_startup has run, the root logger's level is DEBUG and one of
\* its handlers writes to standard output at level DEBUG, in every later
\* state.
C7_LoggerConfigured ==
    Count("do_startup") >= 1 =>
        /\ logger_level = DEBUG
        /\ \E i \in 1..Len(logger_handlers) :
              /\ logger_handlers[i].stream = "stdout"
              /\ logger_handlers[i].level = DEBUG

C7_Witness ==
    /\ Len(calls) >= 3
    /\ calls[1] = "do_startup"
    /\ Count("do_activate") >= 1
    /\ calls[Len(calls)] = "on_quit"
    /\ logger_level = DEBUG

\* C9: main_window changes only in do_activate; do_startup and on_quit
\* leave it alone, and on_quit neither clears it nor hides any window.
C9_OnlyActivateWritesWindow ==
    [][/\ (main_window' # main_window => Called("do_activate"))
       /\ (Called("on_quit") => (main_window' = main_window /\ windows' = windows))
       /\ (Called("do_startup") => main_window' = main_window)]_vars

C9_Witness ==
    /\ Len(calls) >= 2
    /\ calls[Len(calls)] = "on_quit"
    /\ main_window # None
    /\ windows[main_window].shown

\* C10: after n calls of do_activate, n windows have been created, all of
\* them are still shown, and main_window refers to the most recent one
\* only.
C10_EveryActivateAddsShownWindow ==
    /\ Len(windows) = Count("do_activate")
    /\ AllShown
    /\ (Count("do_activate") > 0 => main_window = Len(windows))

C10_Witness ==
    /\ Count("do_activate") = 3
    /\ Len(windows) = 3
    /\ main_window = 3
    /\ windows[1].shown /\ windows[2].shown

====
